---- MODULE Spec2Model ----
(***************************************************************************)
(* A model of OpenRedireX (src/openredirex.py): the command line handling  *)
(* of __main__, the loading of payloads and target URLs, and the           *)
(* semaphore-bounded dispatch of HEAD requests by process_urls and         *)
(* process_url.                                                            *)
(*                                                                         *)
(* Python strings are sequences of one-character strings, so that          *)
(* substring search, replacement, splitting and stripping are computed.    *)
(***************************************************************************)
EXTENDS Integers, Sequences, FiniteSets, TLC

\* ------------------------------------------------------------------ bounds

\* The largest -c/--concurrency value explored.
MaxC == 2

\* The longest list of input lines read from standard input.
MaxUrls == 2

\* The longest payload file (in lines).
MaxPayloads == 2

\* The longest template / payload / keyword explored for str.replace.
MaxStr == 3

\* ------------------------------------------------------------- Python values

\* None where a str is expected: a value no character sequence equals.
None == <<"None">>

\* None where a response is expected, and a response with its history.
NoResponse == [ok |-> FALSE, history |-> <<>>]
Response(h) == [ok |-> TRUE, history |-> h]

\* The exit status of a process that has not exited.
NotExited == -1

\* The result of a task that returned normally, an outcome not yet known, and
\* nothing written.
Nothing == "None"

\* The literal "FUZZ" of load_urls and the default of -k/--keyword.
FUZZ == <<"F", "U", "Z", "Z">>

\* Python truthiness of an Optional[str].
Truthy(x) == x # None /\ x # <<>>

Whitespace == {" ", "\t", "\n"}

Min(S) == CHOOSE x \in S : \A y \in S : x <= y

\* Python's s.startswith(pre).
StartsWith(s, pre) == Len(s) >= Len(pre) /\ SubSeq(s, 1, Len(pre)) = pre

\* s[i:] in 1-based form: the suffix of s starting at index i.
Suffix(s, i) == SubSeq(s, i, Len(s))

\* Every index at which sub occurs in s (overlapping occurrences included).
Occurrences(s, sub) ==
    {i \in 1..(Len(s) - Len(sub) + 1) : SubSeq(s, i, i + Len(sub) - 1) = sub}

\* Python's `sub in s`.
Contains(sub, s) == Occurrences(s, sub) # {}

\* Python's s.find(sub), 1-based, 0 when sub does not occur.
Find(s, sub) == IF Occurrences(s, sub) = {} THEN 0 ELSE Min(Occurrences(s, sub))

\* Python's s.strip(): leading and trailing whitespace removed.
RECURSIVE LStrip(_)
LStrip(s) == IF s # <<>> /\ Head(s) \in Whitespace THEN LStrip(Tail(s)) ELSE s

RECURSIVE RStrip(_)
RStrip(s) ==
    IF s # <<>> /\ s[Len(s)] \in Whitespace THEN RStrip(SubSeq(s, 1, Len(s) - 1)) ELSE s

Strip(s) == LStrip(RStrip(s))

\* Python's s.split(sep) for a one-character separator: always at least one field.
RECURSIVE Split(_, _)
Split(s, sep) ==
    LET i == Find(s, <<sep>>)
    IN  IF i = 0 THEN <<s>>
        ELSE <<SubSeq(s, 1, i - 1)>> \o Split(Suffix(s, i + 1), sep)

\* Python's sep.join(parts).
RECURSIVE Join(_, _)
Join(sep, parts) ==
    IF parts = <<>> THEN <<>>
    ELSE IF Len(parts) = 1 THEN parts[1]
    ELSE parts[1] \o sep \o Join(sep, Tail(parts))

\* One pass of CPython's str.replace: the leftmost occurrence of old is found,
\* replaced by new, and the scan resumes after the replaced text.  An empty old
\* matches before every character and at the end.
RECURSIVE ReplacePass(_, _, _)
ReplacePass(s, old, new) ==
    IF old = <<>>
    THEN IF s = <<>> THEN new ELSE new \o <<Head(s)>> \o ReplacePass(Tail(s), old, new)
    ELSE LET i == Find(s, old)
         IN  IF i = 0 THEN s
             ELSE SubSeq(s, 1, i - 1) \o new
                    \o ReplacePass(Suffix(s, i + Len(old)), old, new)

\* A replace that substitutes again in its own output.
str_replace_rescan(s, old, new) == ReplacePass(ReplacePass(s, old, new), old, new)

\* url.replace(keyword, payload) of process_url.
str_replace(s, old, new) == ReplacePass(s, old, new)

\* ------------------------------------------------------------ urllib.parse
\* The characters of the explored strings are letters, digits and the URL
\* delimiters ":", "/", "?", "=", "&", "#", ",", "-", ">", " ", "\t" and "\n"; there is
\* no ";", "%", "+" or "[" among them, so parsed_url.params is always empty and
\* unquoting leaves every explored name as it is.

HTTP == <<"h", "t", "t", "p">>

Letters == {"h", "t", "p", "a", "b", "e", "F", "U", "Z", "K"}
Digits == {"1", "2"}

\* urllib.parse.scheme_chars restricted to the explored characters.
scheme_chars == Letters \cup Digits \cup {"-"}

Lower(c) ==
    CASE c = "F" -> "f" [] c = "U" -> "u" [] c = "Z" -> "z" [] c = "K" -> "k"
      [] OTHER -> c

LowerStr(s) == [i \in 1..Len(s) |-> Lower(s[i])]

\* The schemes of uses_netloc that the explored strings can spell.
uses_netloc == {<<>>, HTTP}

RECURSIVE RemoveChars(_, _)
RemoveChars(s, cs) ==
    IF s = <<>> THEN <<>>
    ELSE IF Head(s) \in cs THEN RemoveChars(Tail(s), cs)
    ELSE <<Head(s)>> \o RemoveChars(Tail(s), cs)

\* urllib.parse.quote_plus on one character: unreserved characters stay, a
\* space becomes "+", everything else is percent-encoded.
QuoteChar(c) ==
    CASE c \in Letters \cup Digits \cup {"-", "f", "u", "z", "k"} -> <<c>>
      [] c = " "  -> <<"+">>
      [] c = "/"  -> <<"%", "2", "F">>
      [] c = ":"  -> <<"%", "3", "A">>
      [] c = "?"  -> <<"%", "3", "F">>
      [] c = "="  -> <<"%", "3", "D">>
      [] c = "&"  -> <<"%", "2", "6">>
      [] c = "#"  -> <<"%", "2", "3">>
      [] c = ","  -> <<"%", "2", "C">>
      [] c = ">"  -> <<"%", "3", "E">>
      [] c = "\n" -> <<"%", "0", "A">>
      [] c = "\t" -> <<"%", "0", "9">>
      [] OTHER    -> <<c>>

RECURSIVE quote_plus(_)
quote_plus(s) == IF s = <<>> THEN <<>> ELSE QuoteChar(Head(s)) \o quote_plus(Tail(s))

\* urllib.parse.urlsplit / urlparse: [scheme, netloc, path, params, query, fragment].
\* urlsplit first strips leading whitespace and removes every tab and newline
\* of the URL (_UNSAFE_URL_BYTES_TO_REMOVE).
urlparse(url0) ==
    LET url1 == RemoveChars(LStrip(url0), {"\t", "\n"})
        i == Find(url1, <<":">>)
        hasScheme == /\ i > 1
                     /\ url1[1] \in Letters
                     /\ \A j \in 1..(i - 1) : url1[j] \in scheme_chars
        scheme == IF hasScheme THEN LowerStr(SubSeq(url1, 1, i - 1)) ELSE <<>>
        url2 == IF hasScheme THEN Suffix(url1, i + 1) ELSE url1
        hasNetloc == StartsWith(url2, <<"/", "/">>)
        delims == {j \in 3..Len(url2) : url2[j] \in {"/", "?", "#"}}
        delim == IF delims = {} THEN Len(url2) + 1 ELSE Min(delims)
        netloc == IF hasNetloc THEN SubSeq(url2, 3, delim - 1) ELSE <<>>
        url3 == IF hasNetloc THEN Suffix(url2, delim) ELSE url2
        h == Find(url3, <<"#">>)
        fragment == IF h = 0 THEN <<>> ELSE Suffix(url3, h + 1)
        url4 == IF h = 0 THEN url3 ELSE SubSeq(url3, 1, h - 1)
        q == Find(url4, <<"?">>)
        query == IF q = 0 THEN <<>> ELSE Suffix(url4, q + 1)
        path == IF q = 0 THEN url4 ELSE SubSeq(url4, 1, q - 1)
    IN  [scheme |-> scheme, netloc |-> netloc, path |-> path, params |-> <<>>,
         query |-> query, fragment |-> fragment]

\* urllib.parse.parse_qsl with its defaults (keep_blank_values=False,
\* strict_parsing=False): a field without "=" or with an empty value is dropped.
RECURSIVE ParseFields(_)
ParseFields(fields) ==
    IF fields = <<>> THEN <<>>
    ELSE LET nv == Head(fields)
             e == Find(nv, <<"=">>)
             name == SubSeq(nv, 1, e - 1)
             value == Suffix(nv, e + 1)
         IN  (IF nv = <<>> \/ e = 0 \/ value = <<>> THEN <<>> ELSE <<(<<name, value>>)>>)
               \o ParseFields(Tail(fields))

parse_qsl(qs) == IF qs = <<>> THEN <<>> ELSE ParseFields(Split(qs, "&"))

\* urllib.parse.urlencode of a list of pairs.
urlencode(pairs) ==
    Join(<<"&">>, [i \in 1..Len(pairs) |->
                     quote_plus(pairs[i][1]) \o <<"=">> \o quote_plus(pairs[i][2])])

\* urllib.parse.urlunparse.
urlunparse(p) ==
    LET u1 == IF p.params # <<>> THEN p.path \o <<";">> \o p.params ELSE p.path
        withNetloc ==
            \/ p.netloc # <<>>
            \/ (p.scheme # <<>> /\ p.scheme \in uses_netloc
                  /\ ~StartsWith(u1, <<"/", "/">>))
        u2 == IF withNetloc
              THEN <<"/", "/">> \o p.netloc
                     \o (IF u1 # <<>> /\ Head(u1) # "/" THEN <<"/">> ELSE <<>>) \o u1
              ELSE u1
        u3 == IF p.scheme # <<>> THEN p.scheme \o <<":">> \o u2 ELSE u2
        u4 == IF p.query # <<>> THEN u3 \o <<"?">> \o p.query ELSE u3
    IN  IF p.fragment # <<>> THEN u4 \o <<"#">> \o p.fragment ELSE u4

\* A fuzzify_url without the early return of lines 30-31: every URL is parsed
\* and put together again.
fuzzify_url_Always(url, keyword) ==
    LET parsed_url == urlparse(url)
        params == parse_qsl(parsed_url.query)
        fuzzed_params == [i \in 1..Len(params) |-> <<params[i][1], keyword>>]
        fuzzed_query == urlencode(fuzzed_params)
    IN  urlunparse([scheme |-> parsed_url.scheme, netloc |-> parsed_url.netloc,
                    path |-> parsed_url.path, params |-> parsed_url.params,
                    query |-> fuzzed_query, fragment |-> parsed_url.fragment])

\* fuzzify_url: a URL that holds the keyword is returned as it is; otherwise
\* every parsed query value is replaced by the keyword.
fuzzify_url(url, keyword) ==
    IF Contains(keyword, url) THEN url
    ELSE LET parsed_url == urlparse(url)
             params == parse_qsl(parsed_url.query)
             fuzzed_params == [i \in 1..Len(params) |-> <<params[i][1], keyword>>]
             fuzzed_query == urlencode(fuzzed_params)
         IN  urlunparse([scheme |-> parsed_url.scheme, netloc |-> parsed_url.netloc,
                         path |-> parsed_url.path, params |-> parsed_url.params,
                         query |-> fuzzed_query, fragment |-> parsed_url.fragment])

\* ------------------------------------------------------------------ inputs

\* The lines standard input supplies, in order (line i of the stream): a URL
\* with a query, an empty line, and a URL that already holds FUZZ.
StdinLine(i) ==
    CASE i % 3 = 1 -> <<"h","t","t","p",":","/","/","h","/","?","a","=","1","\n">>
      [] i % 3 = 2 -> <<"\n">>
      [] OTHER     -> <<"h","t","t","p",":","/","/","h","/","?","b","=","F","U","Z","Z","\n">>

\* The URLs given to -u/--url and -Uu/--urls (entry i of the list).
ArgUrl(i) ==
    IF i % 2 = 1
    THEN <<"h","t","t","p",":","/","/","h","/","?","a","=","1">>
    ELSE <<"h","t","t","p",":","/","/","h","/","?","b","=","F","U","Z","Z">>

\* The lines of the payload file (line i): a payload, a payload that holds the
\* default keyword between blanks, and an empty line.
PayloadLine(i) ==
    CASE i % 3 = 1 -> <<"/","/","e","\n">>
      [] i % 3 = 2 -> <<" ","F","U","Z","Z"," ","\n">>
      [] OTHER     -> <<"\n">>

\* A URL without a query whose path holds a tab inside the letters of FUZZ.
ArgTab == <<"h","t","t","p",":","/","/","h","/","F","U","\t","Z","Z">>

\* The first n lines of standard input, entries of the list, lines of the file.
StdinLines(n) == [i \in 1..n |-> StdinLine(i)]
ArgUrls(n) == [i \in 1..n |-> ArgUrl(i)]
PayloadLines(n) == [i \in 1..n |-> PayloadLine(i)]

\* The values of -k/--keyword explored: the default and another token.
Keywords == {FUZZ, <<"K">>}

\* What the payload path names: a file that cannot be opened, or its lines.
Unreadable == [readable |-> FALSE, lines |-> <<>>]
PayloadFiles ==
    {Unreadable} \cup {[readable |-> TRUE, lines |-> PayloadLines(m)] :
                         m \in 0..MaxPayloads}

\* The (--url, --urls) pairs explored: neither, one, the other (a list of one
\* or of two URLs), both, and an empty --url beside a --urls list.  Longer
\* lists of targets come from standard input.
UrlOptions ==
    {<<None, None>>, <<ArgUrl(1), None>>, <<ArgTab, None>>, <<(<<>>), ArgUrl(1)>>}
      \cup {<<None, Join(<<",">>, ArgUrls(n))>> : n \in {1, 2}}
      \cup {<<ArgUrl(1), Join(<<",">>, ArgUrls(n))>> : n \in {1, 2}}

\* redirect_payloads: the built-in list, empty in this source.
redirect_payloads == <<>>

\* ---------------------------------------------------------- HTTP environment

\* The exception kinds fetch_url catches.
CaughtErrors ==
    {"ClientConnectorError", "ClientOSError", "ServerDisconnectedError",
     "ServerTimeoutError", "ServerConnectionError", "TooManyRedirects",
     "UnicodeDecodeError", "gaierror", "TimeoutError"}

\* The exceptions the explored requests end in: a refused connection, a
\* timeout, too many redirects (all three caught by fetch_url), and a
\* malformed response, which fetch_url does not name.
RaisedErrors ==
    {"ClientConnectorError", "TimeoutError", "TooManyRedirects", "ClientResponseError"}

\* str(r.url) of the responses in a redirect history.
Hop1 == <<"h","t","t","p",":","/","/","h","/">>
Hop2 == <<"h","t","t","p",":","/","/","e","/">>
HopArrow == <<"h","t","t","p",":","/","/","h","/","a","-","-",">","b">>

\* The redirect histories a response can carry.
Histories == {<<>>, <<Hop1>>, <<Hop1, Hop2>>, <<HopArrow>>}

\* A request URL the HTTP client refuses before sending: anything but
\* "http://" followed by a host.
InvalidRequestURL(url) ==
    ~(/\ StartsWith(url, HTTP \o <<":", "/", "/">>)
      /\ Len(url) > 7
      /\ url[8] \notin {"/", "?", "#"})

\* What awaiting session.head(url) can end in: a response with a redirect
\* history, or an exception.
Outcomes(url) ==
    IF InvalidRequestURL(url)
    THEN {[kind |-> "raise", exc |-> "InvalidURL", history |-> <<>>]}
    ELSE {[kind |-> "response", exc |-> Nothing, history |-> h] : h \in Histories}
           \cup {[kind |-> "raise", exc |-> e, history |-> <<>>] : e \in RaisedErrors}

\* ------------------------------------------------------------------- state

VARIABLES
    args,            \* the parsed command line: url, urls, payloads, keyword, concurrency
    payload_file,    \* what args.payloads names on disk
    stdin,           \* sys.stdin: the lines load_urls iterates over
    pc,              \* where __main__ / main is
    exit_status,     \* the process exit status, NotExited while running
    interrupted,     \* a KeyboardInterrupt was delivered
    payloads,        \* main's payloads
    urls,            \* main's urls (the templates)
    semaphore,       \* the value of asyncio.Semaphore
    pbar_total,      \* tqdm total
    pbar_n,          \* tqdm n: the number of pbar.update() calls
    st,              \* per process_url task: its position
    idx,             \* per task: the index of `payload` in payloads
    filled_url,      \* per task: the local filled_url
    response,        \* per task: the local response
    wrote,           \* per task: what this iteration wrote to stdout
    results,         \* per task: what gather collects (Nothing or an exception)
    req,             \* req[u][p]: requests issued for (urls[u], payloads[p])
    outcomes,        \* outcomes[u][p]: values fetch_url returned for the pair
    n_success,       \* responses returned by fetch_url
    findings,        \* [FOUND] and [INFO] lines written to stdout
    err_logged,      \* [ERROR] lines written to stderr
    r_template,      \* str.replace under test: the receiver
    r_keyword,       \* str.replace under test: old
    r_payload,       \* str.replace under test: new
    r_filled,        \* str.replace under test: the result
    r_done,          \* str.replace under test: applied
    f_url,           \* fuzzify_url under test: url
    f_keyword,       \* fuzzify_url under test: keyword
    f_once,          \* fuzzify_url under test: fuzzify_url(url, keyword)
    f_twice,         \* fuzzify_url under test: fuzzify_url of that result
    f_done           \* fuzzify_url under test: applied

mainvars == <<args, payload_file, stdin, pc, exit_status, interrupted, payloads, urls>>
batchvars == <<semaphore, pbar_total, pbar_n, st, idx, filled_url, response, wrote,
               results, req, outcomes, n_success, findings, err_logged>>
replacevars == <<r_template, r_keyword, r_payload, r_filled, r_done>>
fuzzifyvars == <<f_url, f_keyword, f_once, f_twice, f_done>>
purevars == <<replacevars, fuzzifyvars>>
vars == <<mainvars, batchvars, purevars>>

\* The process_url tasks gather was given: one per url.
Tasks == DOMAIN st

NoBatch ==
    /\ semaphore = 0
    /\ pbar_total = 0
    /\ pbar_n = 0
    /\ st = <<>>
    /\ idx = <<>>
    /\ filled_url = <<>>
    /\ response = <<>>
    /\ wrote = <<>>
    /\ results = <<>>
    /\ req = <<>>
    /\ outcomes = <<>>
    /\ n_success = 0
    /\ findings = 0
    /\ err_logged = 0

NoReplace ==
    /\ r_template = <<>>
    /\ r_keyword = <<>>
    /\ r_payload = <<>>
    /\ r_filled = <<>>
    /\ r_done = FALSE

NoFuzzify ==
    /\ f_url = <<>>
    /\ f_keyword = <<>>
    /\ f_once = <<>>
    /\ f_twice = <<>>
    /\ f_done = FALSE

\* The state after parser.parse_args() (line 96).
Init ==
    /\ \E o \in UrlOptions, k \in Keywords, c \in 1..MaxC :
         \E pf \in {None, <<"p">>} :
           args = [url |-> o[1], urls |-> o[2], payloads |-> pf, keyword |-> k,
                   concurrency |-> c]
    /\ payload_file \in (IF args.payloads = None THEN {Unreadable} ELSE PayloadFiles)
    /\ stdin \in (IF args.url = None /\ args.urls = None
                  THEN {StdinLines(n) : n \in 0..MaxUrls}
                  ELSE {<<>>})
    /\ pc = "check_args"
    /\ exit_status = NotExited
    /\ interrupted = FALSE
    /\ payloads = <<>>
    /\ urls = <<>>
    /\ NoBatch
    /\ NoReplace
    /\ NoFuzzify

\* ------------------------------------------------------------ __main__, main

Exit(code) ==
    /\ pc' = "exited"
    /\ exit_status' = code

\* Lines 98-103: parser.error exits with status 2 when both options are
\* truthy; otherwise sys.stdin is replaced by the given URL or list.
CheckArgs ==
    /\ pc = "check_args"
    /\ IF Truthy(args.url) /\ Truthy(args.urls)
       THEN /\ Exit(2)
            /\ UNCHANGED stdin
       ELSE /\ stdin' = IF Truthy(args.url) THEN <<args.url>>
                        ELSE IF Truthy(args.urls) THEN Split(args.urls, ",")
                        ELSE stdin
            /\ pc' = "load_payloads"
            /\ UNCHANGED exit_status
    /\ UNCHANGED <<args, payload_file, interrupted, payloads, urls>>
    /\ UNCHANGED <<batchvars, purevars>>

\* load_payloads (lines 23-27): the list returned, or the OSError of open().
load_payloads(payloads_file) ==
    IF Truthy(payloads_file)
    THEN IF ~payload_file.readable THEN [raised |-> TRUE, value |-> <<>>]
         ELSE [raised |-> FALSE,
               value |-> [i \in 1..Len(payload_file.lines) |->
                            Strip(payload_file.lines[i])]]
    ELSE [raised |-> FALSE, value |-> redirect_payloads]

\* Line 72.  An OSError of open() leaves main and asyncio.run uncaught: the
\* interpreter prints the traceback and exits with status 1.
LoadPayloads ==
    /\ pc = "load_payloads"
    /\ IF load_payloads(args.payloads).raised
       THEN /\ Exit(1)
            /\ UNCHANGED payloads
       ELSE /\ payloads' = load_payloads(args.payloads).value
            /\ pc' = "load_urls"
            /\ UNCHANGED exit_status
    /\ UNCHANGED <<args, payload_file, stdin, interrupted, urls>>
    /\ UNCHANGED <<batchvars, purevars>>

\* load_urls (lines 41-43).
load_urls == [i \in 1..Len(stdin) |-> fuzzify_url(Strip(stdin[i]), FUZZ)]

\* Line 73.
LoadUrls ==
    /\ pc = "load_urls"
    /\ urls' = load_urls
    /\ pc' = "start_batch"
    /\ UNCHANGED <<args, payload_file, stdin, exit_status, interrupted, payloads>>
    /\ UNCHANGED <<batchvars, purevars>>

\* Lines 74-77 and 67-69: the semaphore and the progress bar are created and
\* gather schedules one process_url task per url.
StartBatch ==
    /\ pc = "start_batch"
    /\ semaphore' = args.concurrency
    /\ pbar_total' = Len(urls) * Len(payloads)
    /\ pbar_n' = 0
    /\ st' = [u \in 1..Len(urls) |-> "pending"]
    /\ idx' = [u \in 1..Len(urls) |-> 0]
    /\ filled_url' = [u \in 1..Len(urls) |-> None]
    /\ response' = [u \in 1..Len(urls) |-> NoResponse]
    /\ wrote' = [u \in 1..Len(urls) |-> Nothing]
    /\ results' = [u \in 1..Len(urls) |-> Nothing]
    /\ req' = [u \in 1..Len(urls) |-> [p \in 1..Len(payloads) |-> 0]]
    /\ outcomes' = [u \in 1..Len(urls) |-> [p \in 1..Len(payloads) |-> 0]]
    /\ pc' = "running"
    /\ UNCHANGED <<n_success, findings, err_logged>>
    /\ UNCHANGED <<args, payload_file, stdin, exit_status, interrupted, payloads, urls>>
    /\ UNCHANGED purevars

\* ------------------------------------------------------ process_url, fetch_url

Holding == {u \in Tasks : st[u] \in {"inflight", "tick"}}
InFlight == {u \in Tasks : st[u] = "inflight"}
Finished == {u \in Tasks : st[u] \in {"done", "raised", "cancelled"}}

\* A loop that walks the payload list from its end.
Issue_Reversed(u, i) ==
    /\ idx' = [idx EXCEPT ![u] = i]
    /\ filled_url' = [filled_url EXCEPT
                        ![u] = str_replace(urls[u], args.keyword,
                                           payloads[Len(payloads) + 1 - i])]
    /\ req' = [req EXCEPT ![u][Len(payloads) + 1 - i] = @ + 1]
    /\ st' = [st EXCEPT ![u] = "inflight"]

\* Lines 56-57 and 47: the keyword is replaced by payload i and the HEAD
\* request is issued; the task is suspended until the request ends.
Issue(u, i) ==
    /\ idx' = [idx EXCEPT ![u] = i]
    /\ filled_url' = [filled_url EXCEPT
                        ![u] = str_replace(urls[u], args.keyword, payloads[i])]
    /\ req' = [req EXCEPT ![u][i] = @ + 1]
    /\ st' = [st EXCEPT ![u] = "inflight"]

\* An acquire that does not wait for a free slot.
Acquire_NoWait(u) ==
    /\ pc = "running"
    /\ st[u] = "pending"
    /\ IF payloads = <<>>
       THEN /\ st' = [st EXCEPT ![u] = "done"]
            /\ UNCHANGED <<semaphore, idx, filled_url, req>>
       ELSE /\ semaphore' = semaphore - 1
            /\ Issue(u, 1)
    /\ UNCHANGED <<pbar_total, pbar_n, response, wrote, results, outcomes, n_success,
                   findings, err_logged>>
    /\ UNCHANGED <<mainvars, purevars>>

\* Lines 54-57: `async with semaphore` is entered once the value is positive
\* and the first request is issued.  With no payloads the loop body never
\* runs and the slot is released at once.
Acquire(u) ==
    /\ pc = "running"
    /\ st[u] = "pending"
    /\ semaphore > 0
    /\ IF payloads = <<>>
       THEN /\ st' = [st EXCEPT ![u] = "done"]
            /\ UNCHANGED <<semaphore, idx, filled_url, req>>
       ELSE /\ semaphore' = semaphore - 1
            /\ Issue(u, 1)
    /\ UNCHANGED <<pbar_total, pbar_n, response, wrote, results, outcomes, n_success,
                   findings, err_logged>>
    /\ UNCHANGED <<mainvars, purevars>>

\* fetch_url (lines 45-51) on what the request ended in: the response is
\* returned, a caught exception is logged and None returned, any other
\* exception propagates.
fetch_url(o) ==
    IF o.kind = "response"
    THEN [ret |-> Response(o.history), logged |-> 0, raised |-> Nothing]
    ELSE IF o.exc \in CaughtErrors
    THEN [ret |-> NoResponse, logged |-> 1, raised |-> Nothing]
    ELSE [ret |-> NoResponse, logged |-> 0, raised |-> o.exc]

Arrow == <<"-", "-", ">">>
Separator == <<" ", "-", "-", ">", " ">>

\* A rendering that reports every response, redirected or not.
Rendering_Always(resp) ==
    IF resp.ok
    THEN IF Contains(Arrow, Join(Separator, resp.history)) THEN "FOUND" ELSE "INFO"
    ELSE Nothing

\* Lines 58-63: what is written for a response: nothing, [INFO] or [FOUND].
Rendering(resp) ==
    IF resp.ok /\ resp.history # <<>>
    THEN LET locations == Join(Separator, resp.history)
         IN  IF Contains(Arrow, locations) THEN "FOUND" ELSE "INFO"
    ELSE Nothing

\* A process_url that gives its slot back as soon as the request has ended,
\* before the report and the progress tick.
Respond_ReleaseEarly(u) ==
    /\ pc = "running"
    /\ st[u] = "inflight"
    /\ \E o \in Outcomes(filled_url[u]) :
         LET f == fetch_url(o)
         IN  /\ err_logged' = err_logged + f.logged
             /\ semaphore' = semaphore + 1
             /\ IF f.raised = Nothing
                THEN /\ response' = [response EXCEPT ![u] = f.ret]
                     /\ outcomes' = [outcomes EXCEPT ![u][idx[u]] = @ + 1]
                     /\ n_success' = n_success + (IF f.ret.ok THEN 1 ELSE 0)
                     /\ wrote' = [wrote EXCEPT ![u] = Rendering(f.ret)]
                     /\ findings' = findings + (IF Rendering(f.ret) = Nothing THEN 0 ELSE 1)
                     /\ st' = [st EXCEPT ![u] = "tick"]
                     /\ UNCHANGED results
                ELSE /\ st' = [st EXCEPT ![u] = "raised"]
                     /\ results' = [results EXCEPT ![u] = f.raised]
                     /\ UNCHANGED <<response, outcomes, n_success, wrote, findings>>
    /\ UNCHANGED <<pbar_total, pbar_n, idx, filled_url, req>>
    /\ UNCHANGED <<mainvars, purevars>>

\* Lines 57-63: the awaited fetch_url ends and its value is classified and
\* reported.  An exception that fetch_url lets through leaves the for loop and
\* the `async with` (the slot is released) and becomes the task's result in
\* gather.
Respond(u) ==
    /\ pc = "running"
    /\ st[u] = "inflight"
    /\ \E o \in Outcomes(filled_url[u]) :
         LET f == fetch_url(o)
         IN  /\ err_logged' = err_logged + f.logged
             /\ IF f.raised = Nothing
                THEN /\ response' = [response EXCEPT ![u] = f.ret]
                     /\ outcomes' = [outcomes EXCEPT ![u][idx[u]] = @ + 1]
                     /\ n_success' = n_success + (IF f.ret.ok THEN 1 ELSE 0)
                     /\ wrote' = [wrote EXCEPT ![u] = Rendering(f.ret)]
                     /\ findings' = findings + (IF Rendering(f.ret) = Nothing THEN 0 ELSE 1)
                     /\ st' = [st EXCEPT ![u] = "tick"]
                     /\ UNCHANGED <<semaphore, results>>
                ELSE /\ st' = [st EXCEPT ![u] = "raised"]
                     /\ results' = [results EXCEPT ![u] = f.raised]
                     /\ semaphore' = semaphore + 1
                     /\ UNCHANGED <<response, outcomes, n_success, wrote, findings>>
    /\ UNCHANGED <<pbar_total, pbar_n, idx, filled_url, req>>
    /\ UNCHANGED <<mainvars, purevars>>

\* A loop that advances the bar for returned responses only.
Tick_SuccessOnly(u) ==
    /\ pc = "running"
    /\ st[u] = "tick"
    /\ pbar_n' = pbar_n + (IF response[u].ok THEN 1 ELSE 0)
    /\ response' = [response EXCEPT ![u] = NoResponse]
    /\ wrote' = [wrote EXCEPT ![u] = Nothing]
    /\ IF idx[u] < Len(payloads)
       THEN /\ Issue(u, idx[u] + 1)
            /\ UNCHANGED semaphore
       ELSE /\ st' = [st EXCEPT ![u] = "done"]
            /\ semaphore' = semaphore + 1
            /\ filled_url' = [filled_url EXCEPT ![u] = None]
            /\ UNCHANGED <<idx, req>>
    /\ UNCHANGED <<pbar_total, results, outcomes, n_success, findings, err_logged>>
    /\ UNCHANGED <<mainvars, purevars>>

\* Line 64, then the loop: pbar.update(), and either the request for the next
\* payload or the end of the `async with` block, which releases the slot.
\* The locals of the finished iteration are dead and are cleared.
Tick(u) ==
    /\ pc = "running"
    /\ st[u] = "tick"
    /\ pbar_n' = pbar_n + 1
    /\ response' = [response EXCEPT ![u] = NoResponse]
    /\ wrote' = [wrote EXCEPT ![u] = Nothing]
    /\ IF idx[u] < Len(payloads)
       THEN /\ Issue(u, idx[u] + 1)
            /\ UNCHANGED semaphore
       ELSE /\ st' = [st EXCEPT ![u] = "done"]
            /\ semaphore' = semaphore + 1
            /\ filled_url' = [filled_url EXCEPT ![u] = None]
            /\ UNCHANGED <<idx, req>>
    /\ UNCHANGED <<pbar_total, results, outcomes, n_success, findings, err_logged>>
    /\ UNCHANGED <<mainvars, purevars>>

\* A gather without return_exceptions=True: an exception of a task leaves
\* main and the interpreter exits with status 1.
Finish_FailOnException ==
    /\ pc = "running"
    /\ \A u \in Tasks : st[u] \in {"done", "raised"}
    /\ Exit(IF \E u \in Tasks : st[u] = "raised" THEN 1 ELSE 0)
    /\ UNCHANGED <<args, payload_file, stdin, interrupted, payloads, urls>>
    /\ UNCHANGED <<batchvars, purevars>>

\* Line 69 and lines 105-106: gather returns once every task has returned or
\* raised (return_exceptions=True keeps the exceptions as results), main and
\* asyncio.run return and the interpreter exits with status 0.
Finish ==
    /\ pc = "running"
    /\ \A u \in Tasks : st[u] \in {"done", "raised"}
    /\ Exit(0)
    /\ UNCHANGED <<args, payload_file, stdin, interrupted, payloads, urls>>
    /\ UNCHANGED <<batchvars, purevars>>

\* ---------------------------------------------------------------- interrupt

InsideAsyncioRun == pc \in {"load_payloads", "load_urls", "start_batch", "running"}

\* asyncio.run cancels every unfinished task: CancelledError is raised at the
\* task's await, its request is abandoned, its locals are gone and a held
\* slot is released by the `async with`.
CancelAll ==
    /\ st' = [u \in Tasks |-> IF u \in Finished THEN st[u] ELSE "cancelled"]
    /\ results' = [u \in Tasks |-> IF u \in Finished THEN results[u] ELSE "CancelledError"]
    /\ semaphore' = semaphore + Cardinality(Holding)
    /\ filled_url' = [u \in Tasks |-> None]
    /\ response' = [u \in Tasks |-> NoResponse]
    /\ wrote' = [u \in Tasks |-> Nothing]

\* A handler that reports the interrupt as an error.
Interrupt_Error ==
    /\ InsideAsyncioRun
    /\ interrupted' = TRUE
    /\ CancelAll
    /\ Exit(1)
    /\ UNCHANGED <<args, payload_file, stdin, payloads, urls>>
    /\ UNCHANGED <<pbar_total, pbar_n, idx, req, outcomes, n_success, findings, err_logged>>
    /\ UNCHANGED purevars

\* Lines 105-109: a KeyboardInterrupt inside asyncio.run(main(args)).
\* asyncio.run cancels the tasks and re-raises; the handler prints a message
\* and calls sys.exit(0).
Interrupt ==
    /\ InsideAsyncioRun
    /\ interrupted' = TRUE
    /\ CancelAll
    /\ Exit(0)
    /\ UNCHANGED <<args, payload_file, stdin, payloads, urls>>
    /\ UNCHANGED <<pbar_total, pbar_n, idx, req, outcomes, n_success, findings, err_logged>>
    /\ UNCHANGED purevars

\* -------------------------------------------------------------- the program

\* __main__ and main up to the call of process_urls.
Startup ==
    \/ CheckArgs
    \/ LoadPayloads
    \/ LoadUrls
    \/ StartBatch

\* The steps of the event loop while the batch runs.
BatchStep ==
    \/ \E u \in Tasks : Acquire(u)
    \/ \E u \in Tasks : Respond(u)
    \/ \E u \in Tasks : Tick(u)
    \/ Finish

Next ==
    \/ Startup
    \/ BatchStep
    \/ Interrupt

Spec == Init /\ [][Next]_vars

\* While the batch runs every issued request ends (the 10 s timeout of line
\* 47 at the latest) and the event loop runs every task that can run; the
\* user need not interrupt.
LiveSpec == Spec /\ WF_vars(BatchStep)

\* ------------------------------------------------------- str.replace alone

Chars == {"a", "b"}

\* The strings over Chars of length lo..hi.
Strings(lo, hi) == UNION {[1..n -> Chars] : n \in lo..hi}

\* The largest keyword and payload explored for str.replace.
MaxWord == 2

InitReplace ==
    /\ args = [url |-> None, urls |-> None, payloads |-> None, keyword |-> FUZZ,
               concurrency |-> 1]
    /\ payload_file = Unreadable
    /\ stdin = <<>>
    /\ pc = "replace"
    /\ exit_status = NotExited
    /\ interrupted = FALSE
    /\ payloads = <<>>
    /\ urls = <<>>
    /\ NoBatch
    /\ r_template \in Strings(0, MaxStr)
    /\ r_keyword \in Strings(1, MaxWord)
    /\ r_payload \in Strings(0, MaxWord)
    /\ r_filled = <<>>
    /\ r_done = FALSE
    /\ NoFuzzify

\* Line 56 on its own: filled_url = url.replace(keyword, payload).
ApplyReplace ==
    /\ pc = "replace"
    /\ ~r_done
    /\ r_filled' = str_replace(r_template, r_keyword, r_payload)
    /\ r_done' = TRUE
    /\ UNCHANGED <<r_template, r_keyword, r_payload>>
    /\ UNCHANGED <<mainvars, batchvars, fuzzifyvars>>

NextReplace == ApplyReplace

SpecReplace == InitReplace /\ [][NextReplace]_vars

\* ------------------------------------------------------- fuzzify_url alone

\* The most "&"-separated fields in an explored query string.
MaxFields == 2

\* The parts the explored URLs are put together from: with and without
\* scheme and host, a plain path and one with a tab inside the letters of FUZZ,
\* fields with a value, with a blank value, without "=", with the keyword as
\* value, and a fragment.
FHeads == {<<>>, <<"h","t","t","p",":","/","/","h">>}
FPaths == {<<>>, <<"/","a">>, <<"/","F","U","\t","Z","Z">>}
FFields == {<<"a","=","1">>, <<"b","=">>, <<"a">>, <<"a","=","F","U","Z","Z">>,
            <<"b","=","2">>}
FFragments == {<<>>, <<"#","e">>}

\* No "?" at all, or "?" and up to MaxFields fields joined by "&".
FQueries ==
    {<<>>} \cup {<<"?">> \o Join(<<"&">>, fs) :
                   fs \in UNION {[1..n -> FFields] : n \in 0..MaxFields}}

FUrls == {h \o p \o q \o g : h \in FHeads, p \in FPaths, q \in FQueries, g \in FFragments}

InitFuzzify ==
    /\ args = [url |-> None, urls |-> None, payloads |-> None, keyword |-> FUZZ,
               concurrency |-> 1]
    /\ payload_file = Unreadable
    /\ stdin = <<>>
    /\ pc = "fuzzify"
    /\ exit_status = NotExited
    /\ interrupted = FALSE
    /\ payloads = <<>>
    /\ urls = <<>>
    /\ NoBatch
    /\ NoReplace
    /\ f_url \in FUrls
    /\ f_keyword \in Keywords
    /\ f_once = <<>>
    /\ f_twice = <<>>
    /\ f_done = FALSE

\* fuzzify_url (lines 29-39) on its own: applied to url, then to its own
\* result.
ApplyFuzzify ==
    /\ pc \in {"fuzzify", "fuzzify_again"}
    /\ \E out \in {fuzzify_url(IF pc = "fuzzify" THEN f_url ELSE f_once, f_keyword)} :
         IF pc = "fuzzify"
         THEN /\ f_once' = out
              /\ pc' = "fuzzify_again"
              /\ UNCHANGED <<f_twice, f_done>>
         ELSE /\ f_twice' = out
              /\ f_done' = TRUE
              /\ pc' = "fuzzified"
              /\ UNCHANGED f_once
    /\ UNCHANGED <<f_url, f_keyword>>
    /\ UNCHANGED <<args, payload_file, stdin, exit_status, interrupted, payloads, urls>>
    /\ UNCHANGED <<batchvars, replacevars>>

NextFuzzify == ApplyFuzzify

SpecFuzzify == InitFuzzify /\ [][NextFuzzify]_vars

\* ================================================================== claims

\* process_urls returned and the interpreter exited normally.
BatchCompleted == pc = "exited" /\ ~interrupted /\ exit_status = 0 /\ Tasks = 1..Len(urls)

\* |urls| x |payloads|, the number of Fuzz Tasks of the run.
K == Len(urls) * Len(payloads)

Pairs == {<<u, p>> \in Tasks \X (1..Len(payloads)) : TRUE}

\* No exception left a process_url task.
NoEscape == \A u \in Tasks : st[u] # "raised"

\* C1: with a concurrency cap C >= 1, the number of requests issued and not
\* yet answered or failed is at most C in every reachable state.
C1_InFlightAtMostC == Cardinality(InFlight) <= args.concurrency

\* A request is outstanding under C = 1 while another task waits for the slot.
C1_Witness ==
    /\ args.concurrency = 1
    /\ Cardinality(InFlight) = 1
    /\ \E u \in Tasks : st[u] = "pending"

C3_EveryTaskOneOutcome ==
    BatchCompleted =>
        /\ \A up \in Pairs : req[up[1]][up[2]] = 1 /\ outcomes[up[1]][up[2]] = 1
        /\ n_success + err_logged = pbar_total

\* C4: no exception of a request leaves fetch_url / process_url, and every
\* other request, the later payloads of the same target included, is issued.
C4_NoExceptionEscapes ==
    /\ \A u \in Tasks : results[u] \in {Nothing, "CancelledError"}
    /\ BatchCompleted => \A up \in Pairs : req[up[1]][up[2]] >= 1

\* Every request of the run ended in a failure fetch_url caught.
AllRefused == NoEscape /\ n_success = 0

\* C5: under fair scheduling a running batch always ends with the process
\* exiting 0; when it completes, every gathered task has finished and, unless
\* an exception escaped, every Fuzz Task was ticked; and when every request
\* was refused there is no Finding and one logged failure per Fuzz Task.
C5_BatchTerminates ==
    /\ (pc = "running") ~> (pc = "exited" /\ exit_status = 0)
    /\ [](BatchCompleted => (Finished = Tasks /\ (NoEscape => pbar_n = pbar_total)))
    /\ []((BatchCompleted /\ AllRefused) => (findings = 0 /\ err_logged = K))

\* A batch of at least two tasks completed with every request refused.
C5_Witness ==
    /\ BatchCompleted
    /\ AllRefused
    /\ K >= 2
    /\ err_logged = K

\* The occurrences of k in s that a left-to-right scan replaces: an occurrence
\* is taken unless an earlier taken one overlaps it.
Taken(s, k) ==
    CHOOSE S \in SUBSET Occurrences(s, k) :
        \A i \in Occurrences(s, k) :
            i \in S <=> ~\E j \in S : j < i /\ i < j + Len(k)

\* s from character c on, with every taken occurrence of k replaced by p and
\* every other character kept.
RECURSIVE Substituted(_, _, _, _)
Substituted(s, k, p, c) ==
    IF c > Len(s) THEN <<>>
    ELSE IF c \in Taken(s, k) THEN p \o Substituted(s, k, p, c + Len(k))
    ELSE <<s[c]>> \o Substituted(s, k, p, c + 1)

\* C6: the request URL is the template with every occurrence of the keyword
\* (found left to right, not overlapping) replaced by the payload and every
\* other character kept; text a payload introduced is not substituted again.
C6_SinglePassReplace ==
    r_done => r_filled = Substituted(r_template, r_keyword, r_payload, 1)

\* The keyword occurs in the template and in the payload that replaces it.
C6_Witness ==
    /\ r_done
    /\ Contains(r_keyword, r_template)
    /\ Contains(r_keyword, r_payload)
    /\ Contains(r_keyword, r_filled)

\* Task u classified a value of fetch_url in this step.
Classified(u) == st[u] = "inflight" /\ st'[u] = "tick"

\* C7: a Finding is written exactly when the request succeeded with a
\* non-empty redirect history, and then exactly one; nothing else writes one.
C7_FindingIffRedirected ==
    [][/\ \A u \in Tasks :
            Classified(u) =>
                findings' - findings =
                    (IF response'[u].ok /\ response'[u].history # <<>> THEN 1 ELSE 0)
       /\ (\A u \in Tasks : ~Classified(u)) => findings' = findings]_vars

\* A response with a redirect history was reported as a Finding.
C7_Witness ==
    \E u \in Tasks :
        /\ st[u] = "tick"
        /\ response[u].ok
        /\ response[u].history # <<>>
        /\ wrote[u] # Nothing
        /\ findings >= 1

\* C8: a Finding is rendered [FOUND] exactly when its chain has more than
\* one entry and [INFO] exactly when it has one, whatever the URLs hold.
C8_RenderingByChainLength ==
    \A u \in Tasks :
        (st[u] = "tick" /\ wrote[u] # Nothing) =>
            /\ wrote[u] = "FOUND" <=> Len(response[u].history) > 1
            /\ wrote[u] = "INFO" <=> Len(response[u].history) = 1

\* Both --url and --urls were supplied, or the payload file cannot be opened.
ConfigError ==
    \/ (args.url # None /\ args.urls # None)
    \/ (args.payloads # None /\ ~payload_file.readable)

RequestsIssued == \E up \in Pairs : req[up[1]][up[2]] > 0

\* C9: on a configuration error no request is ever issued and the process
\* ends with a non-zero status.
C9_ConfigErrorExitsNonZero ==
    (ConfigError /\ ~interrupted) =>
        /\ ~RequestsIssued
        /\ pc # "running"
        /\ pc = "exited" => exit_status # 0

\* C10: once an interrupt has been delivered inside asyncio.run the process
\* has exited with status 0, no request is in flight, every task has ended,
\* and no request is issued in that step or any later one.
C10_InterruptStopsGracefully ==
    [][interrupted' =>
         /\ pc' = "exited"
         /\ exit_status' = 0
         /\ \A u \in DOMAIN st' : st'[u] \in {"done", "raised", "cancelled"}
         /\ req' = req]_vars

\* An interrupt abandoned a request that was in flight.
C10_Witness ==
    /\ interrupted
    /\ exit_status = 0
    /\ \E up \in Pairs :
         /\ st[up[1]] = "cancelled"
         /\ req[up[1]][up[2]] = 1
         /\ outcomes[up[1]][up[2]] = 0

\* ------------------------------------------------------------ claims 11-20

\* The text of url before "#", and its query string: what follows the first
\* "?" of that text.
BeforeFragment(url) ==
    IF Find(url, <<"#">>) = 0 THEN url ELSE SubSeq(url, 1, Find(url, <<"#">>) - 1)

QueryOf(url) ==
    IF Find(BeforeFragment(url), <<"?">>) = 0 THEN <<>>
    ELSE Suffix(BeforeFragment(url), Find(BeforeFragment(url), <<"?">>) + 1)

HasEquals(field) == Contains(<<"=">>, field)

\* The key=value fields of the query of url, in order, blank values included.
QueryPairs(url) ==
    IF QueryOf(url) = <<>> THEN <<>> ELSE SelectSeq(Split(QueryOf(url), "&"), HasEquals)

KeyOf(field) == SubSeq(field, 1, Find(field, <<"=">>) - 1)

\* main has loaded payloads and has not exited.
PayloadsLoaded == pc \in {"load_urls", "start_batch", "running"}

\* C11: every template handed to process_urls holds the run's keyword, the
\* value of -k/--keyword, in its query string.
C11_TemplatesHoldKeyword ==
    pc = "running" =>
        \A u \in 1..Len(urls) : Contains(args.keyword, QueryOf(urls[u]))

\* C12: fuzzify_url returns a URL that holds the keyword as it is, and on a
\* URL with at least one query parameter applying it twice gives what
\* applying it once gives.
C12_IdentityAndIdempotent ==
    f_done =>
        /\ Contains(f_keyword, f_url) => f_once = f_url
        /\ QueryPairs(f_url) # <<>> => f_twice = f_once

\* A URL with a query parameter and without the keyword was rewritten, and
\* rewriting the result changed nothing.
C12_Witness ==
    /\ f_done
    /\ QueryPairs(f_url) # <<>>
    /\ ~Contains(f_keyword, f_url)
    /\ Contains(f_keyword, f_once)
    /\ f_once # f_url
    /\ f_twice = f_once

\* C13: without -p, payloads is the built-in list, that list is not empty,
\* and a completed batch issued at least one request per target.
C13_DefaultPayloadsNonEmpty ==
    /\ (args.payloads = None /\ PayloadsLoaded) =>
          payloads = redirect_payloads /\ payloads # <<>>
    /\ (args.payloads = None /\ BatchCompleted) =>
          \A u \in Tasks : \E p \in 1..Len(payloads) : req[u][p] >= 1

\* The input lines that are not empty once stripped.
NonEmptyLines == {i \in DOMAIN stdin : Strip(stdin[i]) # <<>>}

\* C14: the working set has one template per non-empty input line, and an
\* empty or whitespace-only line gives no template and no task.
C14_OneTemplatePerNonEmptyLine ==
    /\ pc \in {"start_batch", "running"} => Len(urls) = Cardinality(NonEmptyLines)
    /\ pc = "running" => Cardinality(Tasks) = Cardinality(NonEmptyLines)

\* C15: for a URL without the keyword the result has as many key=value pairs
\* as the input, blank values included, with the same keys in the same order
\* and the keyword as every value, and the same scheme, authority, path and
\* fragment.
C15_EveryPairFuzzed ==
    (f_done /\ ~Contains(f_keyword, f_url)) =>
        /\ Len(QueryPairs(f_once)) = Len(QueryPairs(f_url))
        /\ \A i \in 1..Len(QueryPairs(f_url)) :
             QueryPairs(f_once)[i] = KeyOf(QueryPairs(f_url)[i]) \o <<"=">> \o f_keyword
        /\ urlparse(f_once).scheme = urlparse(f_url).scheme
        /\ urlparse(f_once).netloc = urlparse(f_url).netloc
        /\ urlparse(f_once).path = urlparse(f_url).path
        /\ urlparse(f_once).fragment = urlparse(f_url).fragment

\* An input line without a query and without the run's keyword.
NoQueryNoKeyword(line) ==
    QueryOf(Strip(line)) = <<>> /\ ~Contains(args.keyword, Strip(line))

\* C16: the template of a URL without query parameters and without the
\* keyword holds no keyword, and every request made for it is the template as
\* it is: none carries a payload.
C16_NoQueryNoEffectiveTask ==
    pc = "running" =>
        \A u \in Tasks :
            NoQueryNoKeyword(stdin[u]) =>
                /\ ~Contains(args.keyword, urls[u])
                /\ filled_url[u] \in {None, urls[u]}

\* A line without its line terminator.
Chomp(line) ==
    IF line # <<>> /\ line[Len(line)] = "\n" THEN SubSeq(line, 1, Len(line) - 1) ELSE line

\* C17: with a payload file there is one payload per line, in file order,
\* each the line without its line ending (the terminator, or the trailing
\* whitespace): leading whitespace is kept.
C17_OnlyLineEndingStripped ==
    (Truthy(args.payloads) /\ PayloadsLoaded) =>
        /\ Len(payloads) = Len(payload_file.lines)
        /\ \A i \in 1..Len(payloads) :
             payloads[i] \in {Chomp(payload_file.lines[i]), RStrip(payload_file.lines[i])}

\* C18: the progress bar is advanced only by a task that has classified and
\* reported the value of its request and still holds its slot: in the state
\* the tick is taken from, the free slots number C minus the holders.
C18_TickAfterReportBeforeRelease ==
    [][pbar_n' # pbar_n =>
         \E u \in Tasks :
             /\ st[u] = "tick"
             /\ st'[u] # "tick"
             /\ outcomes[u][idx[u]] = 1
             /\ wrote[u] = Rendering(response[u])
             /\ pbar_n' = pbar_n + 1
             /\ u \in Holding
             /\ semaphore = args.concurrency - Cardinality(Holding)
             /\ semaphore' >= semaphore]_vars

\* A Finding was written and ticked, and the task went on to its next
\* payload under the same slot.
C18_Witness ==
    /\ pbar_n >= 1
    /\ findings >= 1
    /\ \E u \in Tasks :
         /\ st[u] = "inflight"
         /\ idx[u] = 2
         /\ semaphore = args.concurrency - 1

\* C19: a slot is held for one (url, payload) request only: the step that
\* ticks a Fuzz Task gives its slot back.
C19_SlotPerFuzzTask ==
    [][\A u \in Tasks :
          (st[u] = "tick" /\ st'[u] # "tick" /\ pbar_n' = pbar_n + 1) =>
              semaphore' = semaphore + 1]_vars

\* The requests of target u are issued in list order, one at a time: a
\* payload has at most one request, and has one only when every earlier
\* payload of the target has a request and a returned value.
InOrder(u) ==
    \A p \in 1..Len(payloads) :
        /\ req[u][p] <= 1
        /\ outcomes[u][p] <= req[u][p]
        /\ req[u][p] = 1 => \A q \in 1..(p - 1) : req[u][q] = 1 /\ outcomes[u][q] = 1

\* A step that issues a request of target u: the first under a newly taken
\* slot, a later one in the step that ticks the one before, slot kept.
IssuedUnderSlot(u) ==
    /\ u \in Holding'
    /\ \/ /\ st[u] = "pending"
          /\ idx'[u] = 1
          /\ semaphore' = semaphore - 1
       \/ /\ st[u] = "tick"
          /\ outcomes[u][idx[u]] = 1
          /\ pbar_n' = pbar_n + 1
          /\ idx'[u] = idx[u] + 1
          /\ semaphore' = semaphore

\* C20: at most min(C, |urls|) requests are in flight, at most one per
\* target; a target's requests follow the payload list, each after the one
\* before was answered and ticked; the slot is held from the first to the last.
C20_OneRequestPerTargetInOrder ==
    /\ [](pc = "running" =>
            /\ Cardinality(InFlight) <= Min({args.concurrency, Len(urls)})
            /\ semaphore = args.concurrency - Cardinality(Holding)
            /\ \A u \in Tasks : InOrder(u))
    /\ [][\A u \in Tasks : req'[u] # req[u] => IssuedUnderSlot(u)]_vars

\* Two targets each have their second request in flight under C = 2.
C20_Witness ==
    /\ args.concurrency = 2
    /\ Cardinality(InFlight) = 2
    /\ \A u \in InFlight : idx[u] = 2 /\ req[u][1] = 1 /\ outcomes[u][1] = 1

====
